---- MODULE Spec2Model ----
(***************************************************************************)
(* TelegramSubBot (src/sub_bot.py): a Telegram bot that relays commands    *)
(* and inline-button clicks to the s-ui panel's HTTP API and renders the   *)
(* JSON answer as chat messages and inline keyboards.                      *)
(*                                                                         *)
(* Conventions.                                                            *)
(*  - A Python str is a sequence of atoms.  An atom is either one          *)
(*    character, or a run of literal text of the source that the code      *)
(*    never looks into.  Text that reaches escape_markdown is cut so that  *)
(*    every MarkdownV2 reserved character is an atom of its own.           *)
(*  - A Python dict is a function whose DOMAIN is its set of keys, so      *)
(*    dict.get(k, default) is Get below.                                   *)
(*  - None is the record PyNone; a JSON array body is JsonArray.           *)
(*  - Every handler is cut at its await points: one action per stretch of  *)
(*    synchronous code that ends in an awaited Telegram call.              *)
(***************************************************************************)
EXTENDS Integers, Sequences, FiniteSets, TLC

VARIABLES
    pc,        \* position of the handler that is running, "idle" when none is
    update,    \* the update being handled (the last one handled when idle)
    log,       \* what the handler of update did so far: answers, GETs, messages
    exc,       \* the exception that escaped the handler of update, or "none"
    resp,      \* what the panel did on the GET of the handler, NoResp before it
    ret,       \* what the s-ui API function made of resp: [raised, ok, val]
    emitted,   \* every callback_data the bot has put on a button so far
    environ,   \* the environment after load_dotenv: a dict of the settings
    phase,     \* where the process is: "import", "aborted", "main", "polling"
    handlers,  \* the handlers added to the application
    parked,    \* a second handler, suspended at an await (concurrent updates)
    plain,     \* the argument of a call of escape_markdown on its own
    escaped    \* the result of that call

process == <<environ, phase, handlers>>
others == <<parked, plain, escaped>>
vars == <<pc, update, log, exc, resp, ret, emitted, environ, phase, handlers,
          parked, plain, escaped>>

---------------------------------------------------------------------------
(* Bounds and the input universe *)

MaxInbounds == 2

PyNone == [py_none |-> TRUE]
JsonArray == [py_list |-> TRUE]
NotJson == [py_invalid |-> TRUE]
NoResp == [kind |-> "none"]
NoRet == [raised |-> "none", ok |-> FALSE, val |-> <<>>]

Get(d, k, dflt) == IF k \in DOMAIN d THEN d[k] ELSE dflt

Ids == {0, 1}
Tags == {<<"a", ".">>}
Usernames == {<<"al">>, <<"b", "_">>}
UserLists == {<<>>, << <<"al">> >>, << <<"b", "_">>, <<"al">> >>}
Msgs == {<<"bad token">>, <<"bad", ".", "token">>}
ErrTexts == {<<"timed out">>}

\* The inbound objects the panel may return: each of id, tag, users may be missing.
Inbounds ==
    LET WithId(S) == S \cup UNION {{d @@ [id |-> i] : d \in S} : i \in Ids}
        WithTag(S) == S \cup UNION {{d @@ [tag |-> t] : d \in S} : t \in Tags}
        WithUsers(S) == S \cup UNION {{d @@ [users |-> u] : d \in S} : u \in UserLists}
    IN  WithUsers(WithTag(WithId({<<>>})))

InboundLists == UNION {[1..n -> Inbounds] : n \in 0..MaxInbounds}

\* The values of the "obj" key of a successful body.
Objs == {PyNone, <<>>} \cup {[inbounds |-> l] : l \in InboundLists}

\* The JSON bodies of a response.
Bodies ==
    {NotJson, JsonArray, <<>>}
    \cup {[success |-> FALSE]}
    \cup {[success |-> FALSE, msg |-> m] : m \in Msgs}
    \cup {[success |-> TRUE]}
    \cup {[success |-> TRUE, obj |-> o] : o \in Objs}

\* response.json() on a body that is not JSON raises a JSONDecodeError, which is
\* a RequestException from requests 2.27 on and a plain ValueError before.
JsonErrors == {"RequestException", "ValueError"}

\* What one requests.get can end in.
PanelOutcomes ==
    {[kind |-> "exception", text |-> e] : e \in ErrTexts}
    \cup {[kind |-> "response", status_code |-> 500, body |-> <<>>]}
    \cup {[kind |-> "response", status_code |-> 200, body |-> NotJson, json_error |-> j] :
             j \in JsonErrors}
    \cup {[kind |-> "response", status_code |-> 200, body |-> b] :
             b \in Bodies \ {NotJson}}

---------------------------------------------------------------------------
(* Text *)

\* The backquote character, which a TLA+ string cannot hold.
BQ == "<backquote>"

Reserved == {"_", "*", "[", "]", "(", ")", "~", BQ, ">", "#", "+", "-", "=",
             "|", "{", "}", ".", "!"}

\* A wrong escape: the underscore is missing from the character class.
RECURSIVE escape_markdown_NoUnderscore(_)
escape_markdown_NoUnderscore(text) ==
    IF text = <<>> THEN <<>>
    ELSE (IF Head(text) \in Reserved \ {"_"} THEN <<"\\", Head(text)>> ELSE <<Head(text)>>)
         \o escape_markdown_NoUnderscore(Tail(text))

RECURSIVE escape_markdown(_)
escape_markdown(text) ==
    IF text = <<>> THEN <<>>
    ELSE (IF Head(text) \in Reserved THEN <<"\\", Head(text)>> ELSE <<Head(text)>>)
         \o escape_markdown(Tail(text))

\* s occurs in t as a contiguous run.
Contains(t, s) ==
    \E i \in 0..(Len(t) - Len(s)) : \A j \in 1..Len(s) : t[i + j] = s[j]

\* str.split on the colon: the fields between the colon atoms.
RECURSIVE split(_)
split(s) ==
    IF \A i \in 1..Len(s) : s[i] # ":" THEN <<s>>
    ELSE LET k == CHOOSE i \in 1..Len(s) : s[i] = ":" /\ \A j \in 1..(i - 1) : s[j] # ":"
         IN  <<SubSeq(s, 1, k - 1)>> \o split(SubSeq(s, k + 1, Len(s)))

\* int(s): the decimal strings the tokens of the model can carry.
IntLiterals == 0..2
IsInt(s) == \E n \in IntLiterals : s = <<ToString(n)>>
int(s) == CHOOSE n \in IntLiterals : s = <<ToString(n)>>

---------------------------------------------------------------------------
(* The s-ui API functions.  Each returns [raised, ok, val]: the exception   *)
(* that leaves the function ("none" when it returns), and the returned      *)
(* pair (ok, val).                                                          *)

Return(ok, val) == [raised |-> "none", ok |-> ok, val |-> val]
Raise(e) == [raised |-> e, ok |-> FALSE, val |-> <<>>]

JsonErrorText == <<"Expecting value: line 1 column 1 ", "(", "char 0", ")">>

\* response.ok
ResponseOk(o) == o.status_code < 400

get_sui_inbounds(o) ==
    IF o.kind = "exception" THEN Return(FALSE, <<"Connection Error: ">> \o o.text)
    ELSE IF ~ResponseOk(o)
         THEN Return(FALSE, <<"HTTP Error: Status Code ", ToString(o.status_code)>>)
    ELSE IF o.body = NotJson
         THEN IF o.json_error = "RequestException"
              THEN Return(FALSE, <<"Connection Error: ">> \o JsonErrorText)
              ELSE Raise("ValueError")
    ELSE IF o.body = JsonArray THEN Raise("AttributeError")
    ELSE IF Get(o.body, "success", FALSE)
         THEN Return(TRUE, Get(o.body, "obj", <<>>))
         ELSE Return(FALSE, <<"API Error: ">> \o Get(o.body, "msg", <<"Unknown API error">>))

test_sui_connection(o) ==
    IF o.kind = "exception" THEN Return(FALSE, <<"<cross> Connection error: ">> \o o.text)
    ELSE IF ~ResponseOk(o)
         THEN Return(FALSE, <<"<cross> Failed to connect", ".", " HTTP Status Code: ",
                              ToString(o.status_code)>>)
    ELSE IF o.body = NotJson
         THEN IF o.json_error = "RequestException"
              THEN Return(FALSE, <<"<cross> Connection error: ">> \o JsonErrorText)
              ELSE Raise("ValueError")
    ELSE IF o.body = JsonArray THEN Raise("AttributeError")
    ELSE IF Get(o.body, "success", FALSE)
         THEN Return(TRUE, <<"<check> s", "-", "ui panel connection successful", "!">>)
         ELSE Return(FALSE, <<"<cross> s", "-", "ui API returned failure: ">>
                            \o Get(o.body, "msg", <<"None">>))

---------------------------------------------------------------------------
(* What a handler leaves in the log *)

NoMarkup == <<>>

Answered == [ev |-> "answer"]
Requested(url) == [ev |-> "GET", url |-> url]
Message(method, text, reply_markup, parse_mode) ==
    [ev |-> method, text |-> text, reply_markup |-> reply_markup,
     parse_mode |-> parse_mode]

IsMessage(e) == e.ev \in {"reply_text", "reply_html", "edit_message_text"}

\* InlineKeyboardButton(text, callback_data=...)
InlineKeyboardButton(text, callback_data) ==
    [text |-> text, callback_data |-> callback_data]

\* The buttons of a keyboard, row after row.
RECURSIVE Buttons(_)
Buttons(keyboard) ==
    IF keyboard = <<>> THEN <<>> ELSE Head(keyboard) \o Buttons(Tail(keyboard))

\* The callback_data of every button of the messages in l.
CallbackData(l) ==
    UNION {{Buttons(l[i].reply_markup)[j].callback_data :
              j \in 1..Len(Buttons(l[i].reply_markup))} : i \in 1..Len(l)}

\* What the synchronous stretch of a handler ends in: the exception that
\* escapes it, and the messages it sends.
Sends(msgs) == [exc |-> "none", msgs |-> msgs]
Escapes(e) == [exc |-> e, msgs |-> <<>>]

---------------------------------------------------------------------------
(* list_inbounds_command, after its progress message *)

ViewUsersToken(inbound_id) == <<"view_users", ":", ToString(inbound_id)>>
BackToken == <<"back_to_inbounds">>

\* A wrong line: the tag is interpolated as the panel sent it.
InboundLine_RawTag(inbound) ==
    LET remark == Get(inbound, "tag", <<"No Name">>)
        inbound_id == Get(inbound, "id", 0)
        user_count == Len(Get(inbound, "users", <<>>))
    IN  <<"\n<bullet> *Name:* ", BQ>> \o remark
        \o <<BQ, " \\| *ID:* ", BQ, ToString(inbound_id), BQ, " \\| *Users:* ",
             ToString(user_count)>>

\* One line of the inbound list.
InboundLine(inbound) ==
    LET remark == escape_markdown(Get(inbound, "tag", <<"No Name">>))
        inbound_id == Get(inbound, "id", 0)
        user_count == Len(Get(inbound, "users", <<>>))
    IN  <<"\n<bullet> *Name:* ", BQ>> \o remark
        \o <<BQ, " \\| *ID:* ", BQ, ToString(inbound_id), BQ, " \\| *Users:* ",
             ToString(user_count)>>

\* The keyboard row of one inbound.
InboundRow(inbound) ==
    LET inbound_id == Get(inbound, "id", 0)
        user_count == Len(Get(inbound, "users", <<>>))
    IN  << InlineKeyboardButton(
               <<"View Users in '">> \o Get(inbound, "tag", <<"No Name">>)
                   \o <<"' (", ToString(user_count), ")">>,
               ViewUsersToken(inbound_id)) >>

RECURSIVE InboundListText(_)
InboundListText(inbound_list) ==
    IF inbound_list = <<>> THEN <<"*Available Inbounds:*\n">>
    ELSE InboundListText(SubSeq(inbound_list, 1, Len(inbound_list) - 1))
         \o InboundLine(inbound_list[Len(inbound_list)])

\* A wrong keyboard: every button appended to one row.
InboundKeyboard_OneRow(inbound_list) ==
    IF inbound_list = <<>> THEN <<>>
    ELSE << [i \in 1..Len(inbound_list) |-> InboundRow(inbound_list[i])[1]] >>

InboundKeyboard(inbound_list) ==
    [i \in 1..Len(inbound_list) |-> InboundRow(inbound_list[i])]

list_inbounds_command(o) ==
    LET r == get_sui_inbounds(o)
        data == r.val
        inbound_list == Get(data, "inbounds", <<>>)
    IN  IF r.raised # "none" THEN Escapes(r.raised)
        ELSE IF ~r.ok
             THEN Sends(<< Message("reply_text", <<"<cross> ", "Error: ">> \o escape_markdown(data),
                                   NoMarkup, "None") >>)
        ELSE IF data = PyNone THEN Escapes("AttributeError")
        ELSE IF inbound_list = <<>>
             THEN Sends(<< Message("reply_text", <<"No inbounds found on your panel.">>,
                                   NoMarkup, "None") >>)
        ELSE Sends(<< Message("reply_text", InboundListText(inbound_list),
                              InboundKeyboard(inbound_list), "MarkdownV2") >>)

---------------------------------------------------------------------------
(* button_handler, after query.answer() *)

\* query.data.split(':') unpacks into two names and the second is an int.
Parses(data) == Len(split(data)) = 2 /\ IsInt(split(data)[2])
Action(data) == split(data)[1]
InboundId(data) == int(split(data)[2])

\* A wrong lookup: the loop has no break, so the last match wins.
target_inbound_Last(inbounds, inbound_id) ==
    LET Match(i) == "id" \in DOMAIN inbounds[i] /\ inbounds[i].id = inbound_id
    IN  IF \E i \in 1..Len(inbounds) : Match(i)
        THEN inbounds[CHOOSE i \in 1..Len(inbounds) :
                        Match(i) /\ \A j \in (i + 1)..Len(inbounds) : ~Match(j)]
        ELSE PyNone

\* A wrong lookup: an inbound without id counts as id 0, as on the list screen.
target_inbound_DefaultId(inbounds, inbound_id) ==
    LET Match(i) == Get(inbounds[i], "id", 0) = inbound_id
    IN  IF \E i \in 1..Len(inbounds) : Match(i)
        THEN inbounds[CHOOSE i \in 1..Len(inbounds) :
                        Match(i) /\ \A j \in 1..(i - 1) : ~Match(j)]
        ELSE PyNone

\* The first inbound whose id key equals inbound_id, None when there is none.
target_inbound(inbounds, inbound_id) ==
    LET Match(i) == "id" \in DOMAIN inbounds[i] /\ inbounds[i].id = inbound_id
    IN  IF \E i \in 1..Len(inbounds) : Match(i)
        THEN inbounds[CHOOSE i \in 1..Len(inbounds) :
                        Match(i) /\ \A j \in 1..(i - 1) : ~Match(j)]
        ELSE PyNone

\* "\n".join of the users, each escaped and put between backquotes.
RECURSIVE user_text_list(_)
user_text_list(user_list) ==
    IF user_list = <<>> THEN <<>>
    ELSE <<BQ>> \o escape_markdown(Head(user_list)) \o <<BQ>>
         \o (IF Len(user_list) > 1 THEN <<"\n">> ELSE <<>>)
         \o user_text_list(Tail(user_list))

NotFoundText == <<"Couldn't find that inbound anymore. Try /list_inbounds again.">>

view_users(o, inbound_id) ==
    LET r == get_sui_inbounds(o)
        data == r.val
        target == target_inbound(Get(data, "inbounds", <<>>), inbound_id)
        remark == escape_markdown(Get(target, "tag", <<"No Name">>))
        user_list == Get(target, "users", <<>>)
    IN  IF r.raised # "none" THEN Escapes(r.raised)
        ELSE IF ~r.ok
             THEN Sends(<< Message("edit_message_text",
                                   <<"Error fetching data again: ">> \o escape_markdown(data),
                                   NoMarkup, "None") >>)
        ELSE IF data = PyNone THEN Escapes("AttributeError")
        ELSE IF target = PyNone \/ target = <<>>
             THEN Sends(<< Message("edit_message_text", NotFoundText, NoMarkup, "None") >>)
        ELSE IF user_list = <<>>
             THEN Sends(<< Message("edit_message_text",
                                   <<"No users found in inbound *">> \o remark \o <<"*\\.">>,
                                   NoMarkup, "MarkdownV2") >>)
        ELSE Sends(<< Message("edit_message_text",
                              <<"*Users in ">> \o remark \o <<":*\n\n">>
                                  \o user_text_list(user_list),
                              << << InlineKeyboardButton(<<"<< Back to Inbounds">>,
                                                         BackToken) >> >>,
                              "MarkdownV2") >>)

---------------------------------------------------------------------------
(* The updates Telegram can deliver *)

Commands == {"start", "test_sui", "list_inbounds"}

\* Callback data that no button of this bot carries: buttons of other
\* versions of the bot and data a client makes up.
OtherTokens ==
    {ViewUsersToken(2),
     <<"view_users", ":", "x">>,
     <<"view_users">>,
     <<"back_to_inbounds", ":", "0">>,
     <<"user_details", ":", "1", ":", "al">>,
     <<"delete_user", ":", "1">>}

FirstLabel(command) ==
    CASE command = "start" -> "start_command"
      [] command = "test_sui" -> "test_sui_command"
      [] command = "list_inbounds" -> "list_inbounds_reply"

---------------------------------------------------------------------------
(* Process start: the module-level configuration and main *)

Settings == {"TELEGRAM_BOT_TOKEN", "SUI_PANEL_URL", "SUI_API_TOKEN"}

\* The environments: each setting unset, set to the empty string, or set.
Environs == UNION {[S -> {"", "value"}] : S \in SUBSET Settings}

\* A wrong test: a variable that is set counts, also when it is empty.
Configured_IsSet(name) == name \in DOMAIN environ

\* os.getenv(name) is truthy: the variable is set and not empty.
Configured(name) == name \in DOMAIN environ /\ environ[name] # ""

AllHandlers == {"start_command", "test_sui_command", "list_inbounds_command",
                "button_handler"}

\* The handler an update is routed to.
HandlerOf(u) ==
    CASE u.kind = "callback_query" -> "button_handler"
      [] u.kind = "command" /\ u.name = "start" -> "start_command"
      [] u.kind = "command" /\ u.name = "test_sui" -> "test_sui_command"
      [] u.kind = "command" /\ u.name = "list_inbounds" -> "list_inbounds_command"

NoParked == [pc |-> "none"]

\* if not all([...]): raise ValueError, at import time.
load_configuration ==
    /\ phase = "import"
    /\ phase' = (IF \A name \in Settings : Configured(name) THEN "main" ELSE "aborted")
    /\ UNCHANGED <<pc, update, log, exc, resp, ret, emitted, environ, handlers, others>>

\* main(), up to run_polling: the application is built and the handlers are added.
main ==
    /\ phase = "main"
    /\ handlers = {}
    /\ handlers' = AllHandlers
    /\ UNCHANGED <<pc, update, log, exc, resp, ret, emitted, environ, phase, others>>

\* application.run_polling()
run_polling ==
    /\ phase = "main"
    /\ handlers = AllHandlers
    /\ phase' = "polling"
    /\ UNCHANGED <<pc, update, log, exc, resp, ret, emitted, environ, handlers, others>>

---------------------------------------------------------------------------
(* The state machine *)

Init ==
    /\ pc = "idle"
    /\ update = [kind |-> "none"]
    /\ log = <<>>
    /\ exc = "none"
    /\ resp = NoResp
    /\ ret = NoRet
    /\ emitted = {}
    /\ environ \in Environs
    /\ phase = "import"
    /\ handlers = {}
    /\ parked = NoParked
    /\ plain = <<>>
    /\ escaped = <<>>

\* Application dispatches an update to its handler.
Dispatch(u, label) ==
    /\ phase = "polling"
    /\ HandlerOf(u) \in handlers
    /\ pc = "idle"
    /\ update' = u
    /\ pc' = label
    /\ log' = <<>>
    /\ exc' = "none"
    /\ resp' = NoResp
    /\ ret' = NoRet
    /\ UNCHANGED <<emitted, process, others>>

ReceiveCommand ==
    \E c \in Commands : Dispatch([kind |-> "command", name |-> c], FirstLabel(c))

\* The user clicks a button the bot rendered.
ClickButton ==
    \E t \in emitted : Dispatch([kind |-> "callback_query", data |-> t], "button_answer")

ClickOtherButton ==
    \E t \in OtherTokens : Dispatch([kind |-> "callback_query", data |-> t], "button_answer")

\* A wrong ending: the panel request is issued a second time.
Finish_Retry(done, result) ==
    /\ pc' = "idle"
    /\ exc' = result.exc
    /\ log' = log \o done \o done \o result.msgs
    /\ emitted' = emitted \cup CallbackData(result.msgs)
    /\ UNCHANGED <<update, process, others>>

\* The handler ends: the messages it still sends, the exception that escapes it.
Finish(done, result) ==
    /\ pc' = "idle"
    /\ exc' = result.exc
    /\ log' = log \o done \o result.msgs
    /\ emitted' = emitted \cup CallbackData(result.msgs)
    /\ UNCHANGED <<update, process, others>>

start_command ==
    /\ pc = "start_command"
    /\ Finish(<<>>, Sends(<< Message("reply_html", <<"Hello">>, NoMarkup, "HTML") >>))
    /\ UNCHANGED <<resp, ret>>

test_sui_reply ==
    /\ pc = "test_sui_command"
    /\ log' = Append(log, Message("reply_text",
                                  <<"Connecting to s-ui panel, please wait...">>,
                                  NoMarkup, "None"))
    /\ pc' = "test_sui_connection"
    /\ UNCHANGED <<update, exc, resp, ret, emitted, process, others>>

test_sui_command ==
    /\ pc = "test_sui_connection"
    /\ \E o \in PanelOutcomes :
         LET r == test_sui_connection(o)
         IN  /\ resp' = o
             /\ ret' = r
             /\ pc' = "idle"
             /\ exc' = r.raised
             /\ log' = log \o <<Requested("/apiv2/status")>>
                        \o (IF r.raised = "none"
                            THEN << Message("reply_text", escape_markdown(r.val),
                                            NoMarkup, "None") >>
                            ELSE <<>>)
             /\ UNCHANGED <<update, emitted, process, others>>

list_inbounds_reply ==
    /\ pc = "list_inbounds_reply"
    /\ log' = Append(log, Message("reply_text",
                                  <<"Fetching inbounds from your panel...">>,
                                  NoMarkup, "None"))
    /\ pc' = "list_inbounds_fetch"
    /\ UNCHANGED <<update, exc, resp, ret, emitted, process, others>>

list_inbounds_fetch ==
    /\ pc = "list_inbounds_fetch"
    /\ \E o \in PanelOutcomes :
         LET result == list_inbounds_command(o)
         IN  /\ resp' = o
             /\ ret' = get_sui_inbounds(o)
             /\ Finish(<<Requested("/apiv2/inbounds")>>, result)

\* A wrong handler: the press is not acknowledged before the work starts.
button_answer_Skipped ==
    /\ pc = "button_answer"
    /\ pc' = "button_parse"
    /\ UNCHANGED <<update, log, exc, resp, ret, emitted, process, others>>

button_answer ==
    /\ pc = "button_answer"
    /\ log' = Append(log, Answered)
    /\ pc' = "button_parse"
    /\ UNCHANGED <<update, exc, resp, ret, emitted, process, others>>

\* The unpacking of the split, or int(), raises.
button_parse_error ==
    /\ pc = "button_parse"
    /\ ~Parses(update.data)
    /\ Finish(<<>>, Escapes("ValueError"))
    /\ UNCHANGED <<resp, ret>>

\* A wrong handler: the inbound id is kept in a variable that every click
\* writes, so a click handled at the same time overwrites it.
button_view_users_SharedId ==
    /\ pc = "button_parse"
    /\ Parses(update.data)
    /\ Action(update.data) = <<"view_users">>
    /\ \E o \in PanelOutcomes :
         LET other == parked # NoParked /\ parked.update.kind = "callback_query"
                        /\ Parses(parked.update.data)
             inbound_id == IF other THEN InboundId(parked.update.data)
                           ELSE InboundId(update.data)
             result == view_users(o, inbound_id)
         IN  /\ resp' = o
             /\ ret' = get_sui_inbounds(o)
             /\ Finish(<<Requested("/apiv2/inbounds")>>, result)

button_view_users ==
    /\ pc = "button_parse"
    /\ Parses(update.data)
    /\ Action(update.data) = <<"view_users">>
    /\ \E o \in PanelOutcomes :
         LET result == view_users(o, InboundId(update.data))
         IN  /\ resp' = o
             /\ ret' = get_sui_inbounds(o)
             /\ Finish(<<Requested("/apiv2/inbounds")>>, result)

\* list_inbounds_command(query, context): query.message stands for update.message.
button_back_to_inbounds ==
    /\ pc = "button_parse"
    /\ Parses(update.data)
    /\ Action(update.data) = <<"back_to_inbounds">>
    /\ pc' = "list_inbounds_reply"
    /\ UNCHANGED <<update, log, exc, resp, ret, emitted, process, others>>

\* Neither branch of the if is taken: the handler returns.
button_no_branch ==
    /\ pc = "button_parse"
    /\ Parses(update.data)
    /\ Action(update.data) \notin {<<"view_users">>, <<"back_to_inbounds">>}
    /\ Finish(<<>>, Sends(<<>>))
    /\ UNCHANGED <<resp, ret>>

Next ==
    \/ load_configuration
    \/ main
    \/ run_polling
    \/ ReceiveCommand
    \/ ClickButton
    \/ ClickOtherButton
    \/ start_command
    \/ test_sui_reply
    \/ test_sui_command
    \/ list_inbounds_reply
    \/ list_inbounds_fetch
    \/ button_answer
    \/ button_parse_error
    \/ button_view_users
    \/ button_back_to_inbounds
    \/ button_no_branch

Spec == Init /\ [][Next]_vars

---------------------------------------------------------------------------
(* Vocabulary of the properties *)

\* The handler of update has run to its end (or an exception ended it).
Handled == pc = "idle" /\ update.kind # "none"
HandledCommand(name) == Handled /\ update.kind = "command" /\ update.name = name
HandledClick == Handled /\ update.kind = "callback_query"
HandledViewUsers ==
    HandledClick /\ Parses(update.data) /\ Action(update.data) = <<"view_users">>

Messages == SelectSeq(log, IsMessage)
LastMessage == Messages[Len(Messages)]
AllButtons == Buttons([i \in 1..Len(Messages) |-> Buttons(Messages[i].reply_markup)])
IsRequest(e) == e.ev = "GET"
Requests == SelectSeq(log, IsRequest)

\* The panel answered HTTP 2xx with a JSON object whose success field is true.
Success(o) ==
    /\ o.kind = "response"
    /\ o.status_code \in 200..299
    /\ o.body \notin {NotJson, JsonArray}
    /\ "success" \in DOMAIN o.body /\ o.body.success

\* ... and the object carries obj.inbounds.
HasInbounds(o) ==
    /\ Success(o)
    /\ "obj" \in DOMAIN o.body /\ o.body.obj # PyNone
    /\ "inbounds" \in DOMAIN o.body.obj
InboundsOf(o) == o.body.obj.inbounds

WellFormed(l) ==
    /\ \A i \in 1..Len(l) : "id" \in DOMAIN l[i]
    /\ \A i, j \in 1..Len(l) : i # j => l[i].id # l[j].id

\* The inbounds of l whose id is inbound_id, as indices.
Matching(l, inbound_id) ==
    {i \in 1..Len(l) : "id" \in DOMAIN l[i] /\ l[i].id = inbound_id}
FirstMatching(l, inbound_id) ==
    l[CHOOSE i \in Matching(l, inbound_id) : \A j \in Matching(l, inbound_id) : i <= j]

UserDetailsToken(inbound_id, username) ==
    <<"user_details", ":", ToString(inbound_id), ":">> \o username

\* button_handler can unpack the token and one of its branches takes it.
Dispatchable(data) ==
    Parses(data) /\ Action(data) \in {<<"view_users">>, <<"back_to_inbounds">>}

---------------------------------------------------------------------------
(* C1: every callback_data the bot has put on a button is one that         *)
(* button_handler can parse and dispatch when it is echoed back.           *)
C1_EmittedTokensDispatchable == \A t \in emitted : Dispatchable(t)

(* C2: a click on a back_to_inbounds button leads to the inbound list: the *)
(* handler raises nothing, fetches the inbounds anew and sends the list.   *)
C2_BackReachesInboundList ==
    (HandledClick /\ update.data = BackToken)
        => /\ exc = "none"
           /\ Requests = <<Requested("/apiv2/inbounds")>>
           /\ Messages # <<>>

(* C3: a click on user_details:<id>:<username> renders a confirmation line *)
(* and exactly one button, whose token is view_users:<id>.                 *)
C3_UserDetailsScreen ==
    \A i \in IntLiterals, u \in Usernames :
        (HandledClick /\ update.data = UserDetailsToken(i, u))
            => /\ exc = "none"
               /\ Messages # <<>>
               /\ Len(AllButtons) = 1
               /\ AllButtons[1].callback_data = ViewUsersToken(i)

(* C4: on a successful response with N inbounds, ids present and unique,   *)
(* list_inbounds renders exactly N buttons, one per row, in panel order;   *)
(* the i-th token is view_users:<id of the i-th inbound>, and the tokens   *)
(* are pairwise distinct.                                                  *)
C4_OneButtonPerInbound ==
    (HandledCommand("list_inbounds") /\ HasInbounds(resp) /\ WellFormed(InboundsOf(resp)))
        => LET l == InboundsOf(resp)
               keyboard == LastMessage.reply_markup
           IN  /\ exc = "none"
               /\ Len(AllButtons) = Len(l)
               /\ Len(keyboard) = Len(l)
               /\ \A i \in 1..Len(l) :
                    /\ Len(keyboard[i]) = 1
                    /\ keyboard[i][1].callback_data = ViewUsersToken(l[i].id)
               /\ \A i, j \in 1..Len(l) :
                    i # j => keyboard[i][1].callback_data # keyboard[j][1].callback_data

C4_Witness ==
    /\ HandledCommand("list_inbounds") /\ HasInbounds(resp)
    /\ WellFormed(InboundsOf(resp))
    /\ Len(InboundsOf(resp)) = 2
    /\ InboundsOf(resp)[1].id > InboundsOf(resp)[2].id
    /\ Len(LastMessage.reply_markup) = 2

(* C5: a view_users click that matches an inbound with U users renders     *)
(* exactly U user buttons user_details:<id>:<username>, in panel order,    *)
(* two per row (one in the last row when U is odd), and exactly one        *)
(* back_to_inbounds button.                                                *)
C5_UserGrid ==
    (HandledViewUsers /\ HasInbounds(resp)
       /\ Matching(InboundsOf(resp), InboundId(update.data)) # {})
        => LET inbound_id == InboundId(update.data)
               users == Get(FirstMatching(InboundsOf(resp), inbound_id), "users", <<>>)
               U == Len(users)
               keyboard == LastMessage.reply_markup
               rows == (U + 1) \div 2
           IN  /\ exc = "none"
               /\ Len(AllButtons) = U + 1
               /\ Len(keyboard) = rows + 1
               /\ \A r \in 1..rows : Len(keyboard[r]) = (IF 2 * r <= U THEN 2 ELSE 1)
               /\ \A i \in 1..U :
                    AllButtons[i].callback_data = UserDetailsToken(inbound_id, users[i])
               /\ AllButtons[U + 1].callback_data = BackToken

(* C6: a view_users click whose id no fetched inbound has edits the        *)
(* message to the not-found text with no buttons, raises nothing and       *)
(* renders no user list.                                                   *)
C6_StaleTokenNotFound ==
    (HandledViewUsers /\ HasInbounds(resp)
       /\ Matching(InboundsOf(resp), InboundId(update.data)) = {})
        => /\ exc = "none"
           /\ Messages = << Message("edit_message_text", NotFoundText, NoMarkup, "None") >>

C6_Witness ==
    /\ HandledViewUsers /\ HasInbounds(resp)
    /\ Matching(InboundsOf(resp), InboundId(update.data)) = {}
    /\ update.data \in emitted
    /\ Len(InboundsOf(resp)) = 2
    /\ \E i \in 1..2 : "id" \notin DOMAIN InboundsOf(resp)[i]
    /\ LastMessage.text = NotFoundText

(* C7: a view_users click that matches an inbound with no users renders    *)
(* the no-users message with exactly one button, the back_to_inbounds one. *)
C7_NoUsersBackButton ==
    (HandledViewUsers /\ HasInbounds(resp)
       /\ Matching(InboundsOf(resp), InboundId(update.data)) # {}
       /\ Get(FirstMatching(InboundsOf(resp), InboundId(update.data)), "users", <<>>) = <<>>)
        => /\ exc = "none"
           /\ Contains(LastMessage.text, <<"No users found in inbound *">>)
           /\ Len(AllButtons) = 1
           /\ AllButtons[1].callback_data = BackToken

(* C8: when the inbounds fetch returns HTTP 2xx with success false and a   *)
(* msg, the last message of list_inbounds is an error message containing   *)
(* that msg, and no message of the command carries a button.               *)
C8_ApiErrorShowsMsg ==
    (HandledCommand("list_inbounds") /\ resp.kind = "response"
       /\ resp.status_code \in 200..299 /\ resp.body \notin {NotJson, JsonArray}
       /\ "success" \in DOMAIN resp.body /\ ~resp.body.success
       /\ "msg" \in DOMAIN resp.body)
        => /\ exc = "none"
           /\ Contains(LastMessage.text, <<"Error: ">>)
           /\ Contains(LastMessage.text, resp.body.msg)
           /\ AllButtons = <<>>

(* C9: every button click, whatever its token and whatever the panel did,  *)
(* ends with a message sent or edited and with no exception escaping.      *)
C9_EveryClickAnswered ==
    HandledClick => (exc = "none" /\ Messages # <<>>)

(* C10: get_sui_inbounds and test_sui_connection return (False, reason)    *)
(* and never raise, for every panel outcome other than HTTP 2xx with a     *)
(* JSON object whose success field is true.                                *)
C10_FailureIsErr ==
    (pc = "idle" /\ resp # NoResp /\ ~Success(resp))
        => (ret.raised = "none" /\ ~ret.ok /\ ret.val # <<>>)

(* C11: when the fetch succeeds but the body has no obj.inbounds (obj      *)
(* absent, obj null, or obj without inbounds), the result counts as an     *)
(* empty inbound sequence: list_inbounds reports no inbounds, a view_users *)
(* click reports the inbound as not found, and nothing is raised.          *)
NoInboundsText == <<"No inbounds found on your panel.">>

C11_MissingInboundsIsEmpty ==
    (Handled /\ Success(resp) /\ ~HasInbounds(resp))
        => /\ HandledCommand("list_inbounds")
                => (exc = "none" /\ LastMessage.text = NoInboundsText
                      /\ AllButtons = <<>>)
           /\ HandledViewUsers
                => (exc = "none" /\ LastMessage.text = NotFoundText
                      /\ AllButtons = <<>>)

(* C12: in every run of the button-click handler the acknowledgement       *)
(* (query.answer) comes before the first panel request of that handler:    *)
(* no GET is in the log of a click without an answer before it.            *)
C12_AnswerBeforeRequest ==
    update.kind = "callback_query"
        => \A i \in 1..Len(log) :
               IsRequest(log[i]) => \E j \in 1..(i - 1) : log[j] = Answered

C12_Witness ==
    /\ HandledClick
    /\ update.data \in emitted
    /\ Len(Requests) = 1
    /\ log[1] = Answered

(* C13: no panel call is retried: the handling of one command or one click *)
(* issues at most one HTTP request to the panel, whatever its outcome; a   *)
(* further request needs another update.                                   *)
C13_AtMostOneRequest == Len(Requests) <= 1

C13_Witness ==
    /\ Handled
    /\ resp.kind = "exception"
    /\ Len(Requests) = 1
    /\ Messages # <<>>

---------------------------------------------------------------------------
(* escape_markdown on its own: one call on every string of the alphabet *)

MaxLen == 3

\* A plain character, the backslash, and two reserved characters.
Alphabet == {"a", "\\", ".", "_"}
Strings == UNION {[1..n -> Alphabet] : n \in 0..MaxLen}

InitEscape ==
    /\ pc = "escape_markdown"
    /\ update = [kind |-> "none"]
    /\ log = <<>>
    /\ exc = "none"
    /\ resp = NoResp
    /\ ret = NoRet
    /\ emitted = {}
    /\ environ = <<>>
    /\ phase = "import"
    /\ handlers = {}
    /\ parked = NoParked
    /\ plain \in Strings
    /\ escaped = <<>>

escape_markdown_call ==
    /\ pc = "escape_markdown"
    /\ escaped' = escape_markdown(plain)
    /\ pc' = "escaped"
    /\ UNCHANGED <<update, log, exc, resp, ret, emitted, process, parked, plain>>

NextEscape == escape_markdown_call

SpecEscape == InitEscape /\ [][NextEscape]_vars

\* The number of reserved characters among the first i of s.
ReservedCount(s, i) == Cardinality({j \in 1..i : s[j] \in Reserved})

\* Manual unescaping: the backslash in front of a reserved character is dropped.
RECURSIVE Unescape(_)
Unescape(s) ==
    IF s = <<>> THEN <<>>
    ELSE IF Len(s) >= 2 /\ s[1] = "\\" /\ s[2] \in Reserved
         THEN <<s[2]>> \o Unescape(SubSeq(s, 3, Len(s)))
         ELSE <<s[1]>> \o Unescape(Tail(s))

(* C14: escape_markdown (1) returns a string without reserved characters   *)
(* unchanged; (2) puts exactly one backslash immediately before every      *)
(* occurrence of a reserved character and changes nothing else; (3) is     *)
(* undone by removing the backslash in front of each reserved character.   *)
C14_EscapeMarkdown ==
    pc = "escaped"
        => /\ (\A i \in 1..Len(plain) : plain[i] \notin Reserved) => escaped = plain
           /\ Len(escaped) = Len(plain) + ReservedCount(plain, Len(plain))
           /\ \A i \in 1..Len(plain) :
                LET k == i + ReservedCount(plain, i)
                IN  /\ escaped[k] = plain[i]
                    /\ plain[i] \in Reserved => escaped[k - 1] = "\\"
           /\ Unescape(escaped) = plain

C14_Witness ==
    /\ pc = "escaped"
    /\ plain = <<"\\", ".", "_">>
    /\ escaped = <<"\\", "\\", ".", "\\", "_">>

---------------------------------------------------------------------------
(* Two updates handled at once.  A handler gives up control only at an     *)
(* await, that is between two actions; the handler that waits is parked    *)
(* with its own local variables and the other one runs.                    *)

Locals == [pc |-> pc, update |-> update, log |-> log, exc |-> exc,
           resp |-> resp, ret |-> ret]

Updates ==
    {[kind |-> "command", name |-> c] : c \in Commands}
    \cup {[kind |-> "callback_query", data |-> t] : t \in emitted \cup OtherTokens}

EntryLabel(u) == IF u.kind = "command" THEN FirstLabel(u.name) ELSE "button_answer"

\* A second update is dispatched while the handler of the first is at an await.
DispatchConcurrently ==
    /\ phase = "polling"
    /\ pc # "idle"
    /\ parked = NoParked
    /\ \E u \in Updates :
         /\ HandlerOf(u) \in handlers
         /\ update' = u
         /\ pc' = EntryLabel(u)
    /\ parked' = Locals
    /\ log' = <<>>
    /\ exc' = "none"
    /\ resp' = NoResp
    /\ ret' = NoRet
    /\ UNCHANGED <<emitted, process, plain, escaped>>

\* The event loop switches to the parked handler.
Switch ==
    /\ parked # NoParked
    /\ pc' = parked.pc
    /\ update' = parked.update
    /\ log' = parked.log
    /\ exc' = parked.exc
    /\ resp' = parked.resp
    /\ ret' = parked.ret
    /\ parked' = (IF pc = "idle" THEN NoParked ELSE Locals)
    /\ UNCHANGED <<emitted, process, plain, escaped>>

NextConcurrent ==
    \/ Next
    \/ DispatchConcurrently
    \/ Switch

SpecConcurrent == Init /\ [][NextConcurrent]_vars

\* What the handler of update u does when the panel answers its GET with o:
\* its log and the exception that escapes it.
Outcome(u, o) ==
    LET get == <<Requested("/apiv2/inbounds")>>
        fetching == << Message("reply_text", <<"Fetching inbounds from your panel...">>,
                               NoMarkup, "None") >>
        listed == [log |-> fetching \o get \o list_inbounds_command(o).msgs,
                   exc |-> list_inbounds_command(o).exc]
    IN  IF u.kind = "command"
        THEN CASE u.name = "start" ->
                    [log |-> << Message("reply_html", <<"Hello">>, NoMarkup, "HTML") >>,
                     exc |-> "none"]
               [] u.name = "test_sui" ->
                    [log |-> << Message("reply_text",
                                        <<"Connecting to s-ui panel, please wait...">>,
                                        NoMarkup, "None"),
                                Requested("/apiv2/status") >>
                             \o (IF test_sui_connection(o).raised = "none"
                                 THEN << Message("reply_text",
                                                 escape_markdown(test_sui_connection(o).val),
                                                 NoMarkup, "None") >>
                                 ELSE <<>>),
                     exc |-> test_sui_connection(o).raised]
               [] u.name = "list_inbounds" -> listed
        ELSE IF ~Parses(u.data) THEN [log |-> <<Answered>>, exc |-> "ValueError"]
        ELSE IF Action(u.data) = <<"view_users">>
             THEN [log |-> <<Answered>> \o get \o view_users(o, InboundId(u.data)).msgs,
                   exc |-> view_users(o, InboundId(u.data)).exc]
        ELSE IF Action(u.data) = <<"back_to_inbounds">>
             THEN [log |-> <<Answered>> \o listed.log, exc |-> listed.exc]
        ELSE [log |-> <<Answered>>, exc |-> "none"]

(* C15: handlers hold no state between updates: under every interleaving   *)
(* of two updates handled at once, what a handler sends and raises is      *)
(* determined by its own update and the panel answer to its own GET.       *)
C15_OutcomeOfOwnUpdate ==
    Handled => (log = Outcome(update, resp).log /\ exc = Outcome(update, resp).exc)

C15_Witness ==
    /\ HandledViewUsers
    /\ HasInbounds(resp)
    /\ parked # NoParked
    /\ parked.pc = "list_inbounds_fetch"
    /\ parked.update.kind = "callback_query"
    /\ Len(Messages) = 1

---------------------------------------------------------------------------
\* The reserved characters that the text fields of the panel can hold.
FieldTexts == Tags \cup Usernames \cup Msgs \cup ErrTexts \cup {JsonErrorText}
FieldReserved == {c \in Reserved : \E s \in FieldTexts : \E i \in 1..Len(s) : s[i] = c}

\* Every reserved character of a field has a backslash in front of it in t.
NoRawField(t) ==
    \A k \in 1..Len(t) : t[k] \in FieldReserved => (k > 1 /\ t[k - 1] = "\\")

Formatted == SelectSeq(Messages, LAMBDA m : m.parse_mode = "MarkdownV2")

(* C16: every text field of the panel (tag, username, error reason) that   *)
(* is put into a message sent in MarkdownV2 mode went through              *)
(* escape_markdown on its own; no formatted message holds a raw field.     *)
C16_FormattedFieldsEscaped ==
    /\ \A i \in 1..Len(Formatted) : NoRawField(Formatted[i].text)
    /\ (Handled /\ Formatted # <<>> /\ HasInbounds(resp))
         => LET l == InboundsOf(resp)
                t == Formatted[1].text
            IN  /\ HandledViewUsers
                     => LET target == FirstMatching(l, InboundId(update.data))
                            users == Get(target, "users", <<>>)
                        IN  /\ \A j \in 1..Len(users) :
                                 Contains(t, <<BQ>> \o escape_markdown(users[j]) \o <<BQ>>)
                            /\ "tag" \in DOMAIN target
                                 => Contains(t, escape_markdown(target.tag))
                /\ ~HandledViewUsers
                     => \A j \in 1..Len(l) :
                            "tag" \in DOMAIN l[j]
                                => Contains(t, <<BQ>> \o escape_markdown(l[j].tag) \o <<BQ>>)

C16_Witness ==
    /\ HandledViewUsers
    /\ HasInbounds(resp)
    /\ Formatted # <<>>
    /\ Contains(Formatted[1].text, <<"\\", ".">>)
    /\ Contains(Formatted[1].text, <<"\\", "_">>)

---------------------------------------------------------------------------
AllConfigured == \A name \in Settings : name \in DOMAIN environ /\ environ[name] # ""

(* C17: if one of the three required settings is absent or empty, the      *)
(* process aborts before any handler is added and before the serve loop    *)
(* is entered; the serve loop is reached only with all three present.      *)
C17_FailFastOnMissingSetting ==
    /\ ~AllConfigured
         => (phase \in {"import", "aborted"} /\ handlers = {} /\ update.kind = "none")
    /\ phase = "aborted" => ~AllConfigured
    /\ phase = "polling" => handlers = AllHandlers

C17_Witness ==
    /\ phase = "aborted"
    /\ DOMAIN environ = Settings
    /\ environ["SUI_API_TOKEN"] = ""
    /\ environ["TELEGRAM_BOT_TOKEN"] # ""
    /\ environ["SUI_PANEL_URL"] # ""

---------------------------------------------------------------------------
(* C18: every list_inbounds command sends the progress message before the  *)
(* panel request and exactly one message after it: the error message when  *)
(* the fetch failed, the no-inbounds message without buttons when it gave  *)
(* no inbound, the formatted list with its buttons otherwise.              *)
C18_ProgressThenOneMessage ==
    HandledCommand("list_inbounds")
        => /\ Len(log) = 3
           /\ IsMessage(log[1]) /\ Contains(log[1].text, <<"Fetching inbounds from your panel...">>)
           /\ log[2] = Requested("/apiv2/inbounds")
           /\ IsMessage(log[3])
           /\ IF ~Success(resp)
              THEN Contains(log[3].text, <<"Error: ">>) /\ log[3].reply_markup = NoMarkup
              ELSE IF ~HasInbounds(resp) \/ InboundsOf(resp) = <<>>
              THEN log[3].text = NoInboundsText /\ log[3].reply_markup = NoMarkup
              ELSE /\ log[3].parse_mode = "MarkdownV2"
                   /\ Len(log[3].reply_markup) = Len(InboundsOf(resp))

---------------------------------------------------------------------------
(* C19: on a view_users click, when several fetched inbounds have the id   *)
(* of the token, the users of the first of them in panel order are shown;  *)
(* an inbound without id is matched by no token, view_users:0 included.    *)
C19_FirstMatchingInbound ==
    (HandledViewUsers /\ HasInbounds(resp))
        => LET l == InboundsOf(resp)
               inbound_id == InboundId(update.data)
               first == FirstMatching(l, inbound_id)
               users == Get(first, "users", <<>>)
               remark == escape_markdown(Get(first, "tag", <<"No Name">>))
           IN  /\ exc = "none"
               /\ Len(Messages) = 1
               /\ IF \A i \in 1..Len(l) : "id" \notin DOMAIN l[i] \/ l[i].id # inbound_id
                  THEN LastMessage.text = NotFoundText
                  ELSE IF users = <<>>
                  THEN LastMessage.text
                          = <<"No users found in inbound *">> \o remark \o <<"*\\.">>
                  ELSE /\ Contains(LastMessage.text, <<"*Users in ">> \o remark \o <<":*\n\n">>)
                       /\ Len(SelectSeq(LastMessage.text, LAMBDA a : a = BQ)) = 2 * Len(users)
                       /\ \A j \in 1..Len(users) :
                            Contains(LastMessage.text,
                                     <<BQ>> \o escape_markdown(users[j]) \o <<BQ>>)

C19_Witness ==
    /\ HandledViewUsers /\ HasInbounds(resp)
    /\ update.data = ViewUsersToken(0)
    /\ InboundsOf(resp) = << [id |-> 0, users |-> << <<"al">> >>],
                             [id |-> 0, users |-> << <<"b", "_">>, <<"al">> >>] >>
    /\ ~Contains(LastMessage.text, <<"b">>)
    /\ Contains(LastMessage.text, <<BQ, "al", BQ>>)

====
